---- MODULE Spec2Model ----
(***************************************************************************)
(* Lifecycle of the sampleapp-go process (src/main.go): the entrypoint,    *)
(* the signal waiter, the two listener supervisors (startServer) with      *)
(* their accept-loop goroutines, and the application request handler.      *)
(***************************************************************************)
EXTENDS Integers, Sequences, FiniteSets, TLC

VARIABLES env, successRate, procState, mainPc, healthy, stopCh, wg,
          sigRegistered, sigBuf, sigSent, sigPc, closeCount,
          pc, loop, keepAlive, inShutdown, active, shutdownErr,
          trace, drains, doneCount, lastDraw, resp,
          probe, reqCount, histCount, served

vars == <<env, successRate, procState, mainPc, healthy, stopCh, wg,
          sigRegistered, sigBuf, sigSent, sigPc, closeCount,
          pc, loop, keepAlive, inShutdown, active, shutdownErr,
          trace, drains, doneCount, lastDraw, resp,
          probe, reqCount, histCount, served>>

mainVars == <<env, successRate, mainPc>>
sigVars  == <<sigRegistered, sigBuf, sigSent, sigPc, closeCount>>
srvVars  == <<pc, loop, keepAlive, inShutdown, active, shutdownErr, trace, drains, doneCount>>
reqVars  == <<lastDraw, resp, probe, reqCount, histCount, served>>

\* ---------------------------------------------------------------- bounds
MaxActive  == 1
MaxSignals == 3
MaxRate    == 100
MaxRequests == 2

\* ------------------------------------------------------ program constants
WgAdd    == 2
SigCap   == 2
RandN    == 101
StatusOK == 200
StatusInternalServerError == 500
StatusBadGateway == 502

Servers == {"app", "metrics"}

\* ------------------------------------------------------------ strconv.Atoi
Digits == <<"0", "1", "2", "3", "4", "5", "6", "7", "8", "9">>

IsDigit(c) == \E i \in 1..10 : Digits[i] = c

DigitVal(c) == (CHOOSE i \in 1..10 : Digits[i] = c) - 1

RECURSIVE ParseDigits(_, _)
ParseDigits(s, acc) ==
    IF s = <<>> THEN acc
    ELSE ParseDigits(Tail(s), acc * 10 + DigitVal(Head(s)))

Atoi(s) ==
    LET signed == s # <<>> /\ Head(s) \in {"+", "-"}
        body   == IF signed THEN Tail(s) ELSE s
    IN  IF body = <<>> \/ \E i \in 1..Len(body) : ~IsDigit(body[i])
        THEN [err |-> TRUE, val |-> 0]
        ELSE [err |-> FALSE,
              val |-> IF signed /\ Head(s) = "-"
                      THEN 0 - ParseDigits(body, 0)
                      ELSE ParseDigits(body, 0)]

\* decimal rendering of a rate, as the environment would carry it
Itoa(n) ==
    IF n < 10 THEN <<Digits[n + 1]>>
    ELSE IF n < 100 THEN <<Digits[(n \div 10) + 1], Digits[(n % 10) + 1]>>
    ELSE <<Digits[(n \div 100) + 1], Digits[((n \div 10) % 10) + 1], Digits[(n % 10) + 1]>>

EnvSamples == {<<>>, <<"x">>, <<"1", "x">>, <<"5", "0">>, <<"1", "0", "0">>}

\* ------------------------------------------------------- request handler
DrawRange == 0..(RandN - 1)

NoResp == [status |-> 0, body |-> ""]

HandlerGe(p, d) ==
    IF d >= p
    THEN [status |-> StatusInternalServerError, body |-> "Fail\n"]
    ELSE [status |-> StatusOK, body |-> "Hello World!\n"]

Handler(p, d) ==
    IF d > p
    THEN [status |-> StatusInternalServerError, body |-> "Fail\n"]
    ELSE [status |-> StatusOK, body |-> "Hello World!\n"]

ReadinessStatus == IF healthy = 1 THEN StatusOK ELSE StatusBadGateway

\* ------------------------------------------- metrics listener handlers
NoProbe == [path |-> "", seen |-> -1, status |-> 0, body |-> ""]

\* a readiness handler that answers OK whatever it reads
ReadinessHandlerAlwaysOK(h) ==
    [path |-> "/readiness", seen |-> h, status |-> StatusOK, body |-> "OK"]

ReadinessHandler(h) ==
    IF h = 1
    THEN [path |-> "/readiness", seen |-> h, status |-> StatusOK, body |-> "OK"]
    ELSE [path |-> "/readiness", seen |-> h, status |-> StatusBadGateway, body |-> "Unhealthy"]

LivenessHandler(h) ==
    [path |-> "/liveness", seen |-> h, status |-> StatusOK, body |-> "OK"]

\* ------------------------------------------- metrics sink
Codes == {StatusOK, StatusInternalServerError}

NoMetrics == [c \in Codes |-> 0]

\* counter or histogram vector: one more sample under the label code
Observe(vec, code) == [vec EXCEPT ![code] = @ + 1]

\* ------------------------------------------------------------------ Init
SrvInit ==
    /\ pc = [s \in Servers |-> "none"]
    /\ loop = [s \in Servers |-> "none"]
    /\ keepAlive = [s \in Servers |-> TRUE]
    /\ inShutdown = [s \in Servers |-> FALSE]
    /\ active = [s \in Servers |-> 0]
    /\ shutdownErr = [s \in Servers |-> "none"]
    /\ trace = [s \in Servers |-> <<>>]
    /\ drains = [s \in Servers |-> 0]
    /\ doneCount = [s \in Servers |-> 0]

Init ==
    /\ env \in EnvSamples
    /\ successRate = 0
    /\ procState = "running"
    /\ mainPc = "parse"
    /\ healthy = 0
    /\ stopCh = "nil"
    /\ wg = 0
    /\ sigRegistered = FALSE
    /\ sigBuf = 0
    /\ sigSent = 0
    /\ sigPc = "none"
    /\ closeCount = 0
    /\ SrvInit
    /\ lastDraw = -1
    /\ resp = NoResp
    /\ probe = NoProbe
    /\ reqCount = NoMetrics
    /\ histCount = NoMetrics
    /\ served = 0

Running == procState = "running"

\* ------------------------------------------------------------------ main
\* the parse error is dropped and the rate defaults to 0
MainParseIgnoreErr ==
    /\ Running /\ mainPc = "parse"
    /\ successRate' = Atoi(env).val
    /\ mainPc' = "init"
    /\ UNCHANGED <<env, procState, healthy, stopCh, wg, sigVars, srvVars, reqVars>>

MainParse ==
    /\ Running /\ mainPc = "parse"
    /\ IF Atoi(env).err
       THEN /\ procState' = "fatal"
            /\ UNCHANGED <<successRate, mainPc>>
       ELSE /\ successRate' = Atoi(env).val
            /\ mainPc' = "init"
            /\ UNCHANGED procState
    /\ UNCHANGED <<env, healthy, stopCh, wg, sigVars, srvVars, reqVars>>

\* wg.Add(1) for two supervisors
MainInitAddOne ==
    /\ Running /\ mainPc = "init"
    /\ stopCh' = "open"
    /\ wg' = wg + 1
    /\ mainPc' = "goApp"
    /\ UNCHANGED <<env, successRate, procState, healthy, sigVars, srvVars, reqVars>>

MainInit ==
    /\ Running /\ mainPc = "init"
    /\ stopCh' = "open"
    /\ wg' = wg + WgAdd
    /\ mainPc' = "goApp"
    /\ UNCHANGED <<env, successRate, procState, healthy, sigVars, srvVars, reqVars>>

MainGo(s, at, next) ==
    /\ Running /\ mainPc = at
    /\ pc' = [pc EXCEPT ![s] = "spawn"]
    /\ mainPc' = next
    /\ UNCHANGED <<env, successRate, procState, healthy, stopCh, wg, sigVars,
                   loop, keepAlive, inShutdown, active, shutdownErr, trace, drains,
                   doneCount, reqVars>>

MainGoApp == MainGo("app", "goApp", "goMetrics")

MainGoMetrics == MainGo("metrics", "goMetrics", "notify")

MainNotify ==
    /\ Running /\ mainPc = "notify"
    /\ sigRegistered' = TRUE
    /\ mainPc' = "goSig"
    /\ UNCHANGED <<env, successRate, procState, healthy, stopCh, wg,
                   sigBuf, sigSent, sigPc, closeCount, srvVars, reqVars>>

MainGoSig ==
    /\ Running /\ mainPc = "goSig"
    /\ sigPc' = "recv"
    /\ mainPc' = "ready"
    /\ UNCHANGED <<env, successRate, procState, healthy, stopCh, wg,
                   sigRegistered, sigBuf, sigSent, closeCount, srvVars, reqVars>>

MainReady ==
    /\ Running /\ mainPc = "ready"
    /\ healthy' = 1
    /\ mainPc' = "wait"
    /\ UNCHANGED <<env, successRate, procState, stopCh, wg, sigVars, srvVars, reqVars>>

MainWait ==
    /\ Running /\ mainPc = "wait"
    /\ wg = 0
    /\ mainPc' = "log"
    /\ UNCHANGED <<env, successRate, procState, healthy, stopCh, wg, sigVars, srvVars, reqVars>>

MainReturn ==
    /\ Running /\ mainPc = "log"
    /\ mainPc' = "done"
    /\ procState' = "exit0"
    /\ UNCHANGED <<env, successRate, healthy, stopCh, wg, sigVars, srvVars, reqVars>>

MainStep ==
    \/ MainParse \/ MainInit \/ MainGoApp \/ MainGoMetrics \/ MainNotify
    \/ MainGoSig \/ MainReady \/ MainWait \/ MainReturn

\* ------------------------------------------------- termination signals
\* the environment raises SIGTERM/SIGINT; before signal.Notify the default
\* disposition ends the process, after it the signal is queued on c
\* (capacity SigCap, a signal finding the buffer full is dropped)
DeliverSignal ==
    /\ Running /\ sigSent < MaxSignals
    /\ sigSent' = sigSent + 1
    /\ IF sigRegistered
       THEN /\ sigBuf' = IF sigBuf < SigCap THEN sigBuf + 1 ELSE sigBuf
            /\ UNCHANGED procState
       ELSE /\ procState' = "killed"
            /\ UNCHANGED sigBuf
    /\ UNCHANGED <<mainVars, healthy, stopCh, wg, sigRegistered, sigPc, closeCount,
                   srvVars, reqVars>>

SigRecv ==
    /\ Running /\ sigPc = "recv"
    /\ sigBuf > 0
    /\ sigBuf' = sigBuf - 1
    /\ sigPc' = "close"
    /\ UNCHANGED <<mainVars, procState, healthy, stopCh, wg, sigRegistered, sigSent,
                   closeCount, srvVars, reqVars>>

\* a single value sent on stopCh instead of closing it
SendStop ==
    /\ Running /\ sigPc = "close"
    /\ stopCh' = "sent"
    /\ closeCount' = closeCount + 1
    /\ sigPc' = "done"
    /\ UNCHANGED <<mainVars, procState, healthy, wg, sigRegistered, sigBuf, sigSent,
                   srvVars, reqVars>>

\* the signal goroutine looping over c
SigCloseLoop ==
    /\ Running /\ sigPc = "close"
    /\ stopCh' = "closed"
    /\ closeCount' = closeCount + 1
    /\ sigPc' = "recv"
    /\ UNCHANGED <<mainVars, procState, healthy, wg, sigRegistered, sigBuf, sigSent,
                   srvVars, reqVars>>

SigClose ==
    /\ Running /\ sigPc = "close"
    /\ stopCh' = "closed"
    /\ closeCount' = closeCount + 1
    /\ sigPc' = "done"
    /\ UNCHANGED <<mainVars, procState, healthy, wg, sigRegistered, sigBuf, sigSent,
                   srvVars, reqVars>>

SigStep == SigRecv \/ SigClose

\* ------------------------------------------------- listener supervisor
\* statement order of startServer after the receive on stopCh
SupNextPcNoSettle(p) ==
    CASE p = "keepalive" -> "store"
      [] p = "store"     -> "shutdown"
      [] p = "sleep"     -> "shutdown"
      [] p = "shutdown"  -> "closing"
      [] p = "closing"   -> "log"
      [] p = "log"       -> "done"

SupNextPc(p) ==
    CASE p = "keepalive" -> "store"
      [] p = "store"     -> "sleep"
      [] p = "sleep"     -> "shutdown"
      [] p = "shutdown"  -> "closing"
      [] p = "closing"   -> "log"
      [] p = "log"       -> "done"

SupSpawn(s) ==
    /\ Running /\ pc[s] = "spawn"
    /\ loop' = [loop EXCEPT ![s] = "start"]
    /\ pc' = [pc EXCEPT ![s] = "wait"]
    /\ UNCHANGED <<mainVars, procState, healthy, stopCh, wg, sigVars, keepAlive,
                   inShutdown, active, shutdownErr, trace, drains, doneCount, reqVars>>

\* the supervisor waiting for its accept loop before it listens for the stop
SupRecvAfterServing(s) ==
    /\ Running /\ pc[s] = "wait"
    /\ loop[s] = "serving"
    /\ stopCh \in {"closed", "sent"}
    /\ stopCh' = IF stopCh = "sent" THEN "open" ELSE stopCh
    /\ pc' = [pc EXCEPT ![s] = "keepalive"]
    /\ drains' = [drains EXCEPT ![s] = @ + 1]
    /\ UNCHANGED <<mainVars, procState, healthy, wg, sigVars, loop, keepAlive,
                   inShutdown, active, shutdownErr, trace, doneCount, reqVars>>

\* <-stopCh: a closed channel releases every receiver, a sent value one
SupRecv(s) ==
    /\ Running /\ pc[s] = "wait"
    /\ stopCh \in {"closed", "sent"}
    /\ stopCh' = IF stopCh = "sent" THEN "open" ELSE stopCh
    /\ pc' = [pc EXCEPT ![s] = "keepalive"]
    /\ drains' = [drains EXCEPT ![s] = @ + 1]
    /\ UNCHANGED <<mainVars, procState, healthy, wg, sigVars, loop, keepAlive,
                   inShutdown, active, shutdownErr, trace, doneCount, reqVars>>

SupKeepAlive(s) ==
    /\ Running /\ pc[s] = "keepalive"
    /\ keepAlive' = [keepAlive EXCEPT ![s] = FALSE]
    /\ trace' = [trace EXCEPT ![s] = Append(@, "keepalive")]
    /\ pc' = [pc EXCEPT ![s] = SupNextPc("keepalive")]
    /\ UNCHANGED <<mainVars, procState, healthy, stopCh, wg, sigVars, loop,
                   inShutdown, active, shutdownErr, drains, doneCount, reqVars>>

\* the store guarded by "is this the application listener"
SupStoreAppOnly(s) ==
    /\ Running /\ pc[s] = "store"
    /\ healthy' = IF s = "app" THEN 0 ELSE healthy
    /\ trace' = [trace EXCEPT ![s] = Append(@, "store")]
    /\ pc' = [pc EXCEPT ![s] = SupNextPc("store")]
    /\ UNCHANGED <<mainVars, procState, stopCh, wg, sigVars, loop, keepAlive,
                   inShutdown, active, shutdownErr, drains, doneCount, reqVars>>

SupStore(s) ==
    /\ Running /\ pc[s] = "store"
    /\ healthy' = 0
    /\ trace' = [trace EXCEPT ![s] = Append(@, "store")]
    /\ pc' = [pc EXCEPT ![s] = SupNextPc("store")]
    /\ UNCHANGED <<mainVars, procState, stopCh, wg, sigVars, loop, keepAlive,
                   inShutdown, active, shutdownErr, drains, doneCount, reqVars>>

\* time.Sleep(5s) returns
SupSleep(s) ==
    /\ Running /\ pc[s] = "sleep"
    /\ trace' = [trace EXCEPT ![s] = Append(@, "sleep")]
    /\ pc' = [pc EXCEPT ![s] = SupNextPc("sleep")]
    /\ UNCHANGED <<mainVars, procState, healthy, stopCh, wg, sigVars, loop, keepAlive,
                   inShutdown, active, shutdownErr, drains, doneCount, reqVars>>

\* the metrics listener shut down only after the application listener
SupShutdownSerial(s) ==
    /\ Running /\ pc[s] = "shutdown"
    /\ (s = "metrics" => pc["app"] = "done")
    /\ inShutdown' = [inShutdown EXCEPT ![s] = TRUE]
    /\ trace' = [trace EXCEPT ![s] = Append(@, "shutdown")]
    /\ pc' = [pc EXCEPT ![s] = SupNextPc("shutdown")]
    /\ UNCHANGED <<mainVars, procState, healthy, stopCh, wg, sigVars, loop, keepAlive,
                   active, shutdownErr, drains, doneCount, reqVars>>

\* context.WithTimeout and the entry of srv.Shutdown: the server is marked
\* as shutting down and its listeners are closed
SupShutdown(s) ==
    /\ Running /\ pc[s] = "shutdown"
    /\ inShutdown' = [inShutdown EXCEPT ![s] = TRUE]
    /\ trace' = [trace EXCEPT ![s] = Append(@, "shutdown")]
    /\ pc' = [pc EXCEPT ![s] = SupNextPc("shutdown")]
    /\ UNCHANGED <<mainVars, procState, healthy, stopCh, wg, sigVars, loop, keepAlive,
                   active, shutdownErr, drains, doneCount, reqVars>>

\* srv.Shutdown returns nil: every connection is idle
SupShutdownOk(s) ==
    /\ Running /\ pc[s] = "closing"
    /\ active[s] = 0
    /\ shutdownErr' = [shutdownErr EXCEPT ![s] = "nil"]
    /\ pc' = [pc EXCEPT ![s] = SupNextPc("closing")]
    /\ UNCHANGED <<mainVars, procState, healthy, stopCh, wg, sigVars, loop, keepAlive,
                   inShutdown, active, trace, drains, doneCount, reqVars>>

\* a shutdown error treated as fatal
SupShutdownTimeoutFatal(s) ==
    /\ Running /\ pc[s] = "closing"
    /\ shutdownErr' = [shutdownErr EXCEPT ![s] = "deadline"]
    /\ procState' = "fatal"
    /\ UNCHANGED <<mainVars, healthy, stopCh, wg, sigVars, pc, loop, keepAlive,
                   inShutdown, active, trace, drains, doneCount, reqVars>>

\* srv.Shutdown returns ctx.Err(): stopTimeout expired
SupShutdownTimeout(s) ==
    /\ Running /\ pc[s] = "closing"
    /\ shutdownErr' = [shutdownErr EXCEPT ![s] = "deadline"]
    /\ pc' = [pc EXCEPT ![s] = SupNextPc("closing")]
    /\ UNCHANGED <<mainVars, procState, healthy, stopCh, wg, sigVars, loop, keepAlive,
                   inShutdown, active, trace, drains, doneCount, reqVars>>

\* the log line, then the deferred cancel() and wg.Done(); a WaitGroup
\* counter going negative panics
SupReturn(s) ==
    /\ Running /\ pc[s] = "log"
    /\ pc' = [pc EXCEPT ![s] = SupNextPc("log")]
    /\ doneCount' = [doneCount EXCEPT ![s] = @ + 1]
    /\ wg' = wg - 1
    /\ procState' = IF wg - 1 < 0 THEN "panic" ELSE procState
    /\ UNCHANGED <<mainVars, healthy, stopCh, sigVars, loop, keepAlive,
                   inShutdown, active, shutdownErr, trace, drains, reqVars>>

SupStep(s) ==
    \/ SupSpawn(s) \/ SupRecv(s) \/ SupKeepAlive(s) \/ SupStore(s) \/ SupSleep(s)
    \/ SupShutdown(s) \/ SupShutdownOk(s) \/ SupShutdownTimeout(s) \/ SupReturn(s)

\* ------------------------------------------------- accept-loop goroutine
\* ListenAndServe binds and starts accepting
LoopServe(s) ==
    /\ Running /\ loop[s] = "start"
    /\ ~inShutdown[s]
    /\ loop' = [loop EXCEPT ![s] = "serving"]
    /\ UNCHANGED <<mainVars, procState, healthy, stopCh, wg, sigVars, pc, keepAlive,
                   inShutdown, active, shutdownErr, trace, drains, doneCount, reqVars>>

\* ListenAndServe returns http.ErrServerClosed: Shutdown has been called
LoopClosed(s) ==
    /\ Running /\ loop[s] \in {"start", "serving"}
    /\ inShutdown[s]
    /\ loop' = [loop EXCEPT ![s] = "closed"]
    /\ UNCHANGED <<mainVars, procState, healthy, stopCh, wg, sigVars, pc, keepAlive,
                   inShutdown, active, shutdownErr, trace, drains, doneCount, reqVars>>

\* the error is logged and the goroutine returns
LoopFailLogged(s) ==
    /\ Running /\ loop[s] \in {"start", "serving"}
    /\ ~inShutdown[s]
    /\ loop' = [loop EXCEPT ![s] = "failed"]
    /\ UNCHANGED <<mainVars, procState, healthy, stopCh, wg, sigVars, pc, keepAlive,
                   inShutdown, active, shutdownErr, trace, drains, doneCount, reqVars>>

\* ListenAndServe returns another error (bind failure, accept failure):
\* log.Fatalf ends the process with status 1
LoopFail(s) ==
    /\ Running /\ loop[s] \in {"start", "serving"}
    /\ ~inShutdown[s]
    /\ loop' = [loop EXCEPT ![s] = "failed"]
    /\ procState' = "fatal"
    /\ UNCHANGED <<mainVars, healthy, stopCh, wg, sigVars, pc, keepAlive,
                   inShutdown, active, shutdownErr, trace, drains, doneCount, reqVars>>

\* ------------------------------------------------- connections
ConnActive(s) ==
    /\ Running /\ loop[s] = "serving"
    /\ ~inShutdown[s]
    /\ active[s] < MaxActive
    /\ active' = [active EXCEPT ![s] = @ + 1]
    /\ UNCHANGED <<mainVars, procState, healthy, stopCh, wg, sigVars, pc, loop, keepAlive,
                   inShutdown, shutdownErr, trace, drains, doneCount, reqVars>>

ConnIdle(s) ==
    /\ Running /\ active[s] > 0
    /\ active' = [active EXCEPT ![s] = @ - 1]
    /\ UNCHANGED <<mainVars, procState, healthy, stopCh, wg, sigVars, pc, loop, keepAlive,
                   inShutdown, shutdownErr, trace, drains, doneCount, reqVars>>

\* ------------------------------------------------- application handler
\* the instrumented handler labelling every sample 200
ServeRequestLabelOK(d) ==
    /\ Running /\ loop["app"] = "serving"
    /\ served < MaxRequests
    /\ lastDraw' = d
    /\ resp' = Handler(successRate, d)
    /\ reqCount' = Observe(reqCount, StatusOK)
    /\ histCount' = Observe(histCount, StatusOK)
    /\ served' = served + 1
    /\ UNCHANGED <<mainVars, procState, healthy, stopCh, wg, sigVars, srvVars, probe>>

\* one request to "/": Handler wrapped by InstrumentHandlerCounter and
\* InstrumentHandlerDuration, each recording one sample under the status
\* code the handler wrote
ServeRequest(d) ==
    /\ Running /\ loop["app"] = "serving"
    /\ served < MaxRequests
    /\ lastDraw' = d
    /\ resp' = Handler(successRate, d)
    /\ reqCount' = Observe(reqCount, Handler(successRate, d).status)
    /\ histCount' = Observe(histCount, Handler(successRate, d).status)
    /\ served' = served + 1
    /\ UNCHANGED <<mainVars, procState, healthy, stopCh, wg, sigVars, srvVars, probe>>

\* ------------------------------------------- requests to the metrics listener
Readiness ==
    /\ Running /\ loop["metrics"] = "serving"
    /\ probe' = ReadinessHandler(healthy)
    /\ UNCHANGED <<mainVars, procState, healthy, stopCh, wg, sigVars, srvVars,
                   lastDraw, resp, reqCount, histCount, served>>

Liveness ==
    /\ Running /\ loop["metrics"] = "serving"
    /\ probe' = LivenessHandler(healthy)
    /\ UNCHANGED <<mainVars, procState, healthy, stopCh, wg, sigVars, srvVars,
                   lastDraw, resp, reqCount, histCount, served>>

\* GET /metrics: the exposition is delegated to promhttp.Handler
MetricsScrape ==
    /\ Running /\ loop["metrics"] = "serving"
    /\ probe' = [path |-> "/metrics", seen |-> -1, status |-> StatusOK, body |-> "exposition"]
    /\ UNCHANGED <<mainVars, procState, healthy, stopCh, wg, sigVars, srvVars,
                   lastDraw, resp, reqCount, histCount, served>>

ProbeStep == Readiness \/ Liveness \/ MetricsScrape

\* ------------------------------------------------- specifications
Next ==
    \/ MainStep
    \/ DeliverSignal
    \/ SigStep
    \/ \E s \in Servers : SupStep(s)
    \/ \E s \in Servers : LoopServe(s)
    \/ \E s \in Servers : LoopClosed(s)
    \/ \E s \in Servers : LoopFail(s)
    \/ \E s \in Servers : ConnActive(s)
    \/ \E s \in Servers : ConnIdle(s)

Spec == Init /\ [][Next]_vars

\* every goroutine of the program keeps being scheduled, time.Sleep returns
\* and the Shutdown context expires; the environment (signals, connections,
\* listener failures) is under no obligation
FairSpec ==
    /\ Spec
    /\ WF_vars(MainStep)
    /\ WF_vars(SigStep)
    /\ \A s \in Servers : WF_vars(SupStep(s))
    /\ \A s \in Servers : WF_vars(LoopClosed(s))

\* the handler applied to every draw, for every rate, on a process whose
\* two listeners are serving
HandlerInit ==
    /\ successRate \in 0..MaxRate
    /\ env = Itoa(successRate)
    /\ procState = "running"
    /\ mainPc = "wait"
    /\ healthy = 1
    /\ stopCh = "open"
    /\ wg = WgAdd
    /\ sigRegistered = TRUE
    /\ sigBuf = 0
    /\ sigSent = 0
    /\ sigPc = "recv"
    /\ closeCount = 0
    /\ pc = [s \in Servers |-> "wait"]
    /\ loop = [s \in Servers |-> "serving"]
    /\ keepAlive = [s \in Servers |-> TRUE]
    /\ inShutdown = [s \in Servers |-> FALSE]
    /\ active = [s \in Servers |-> 0]
    /\ shutdownErr = [s \in Servers |-> "none"]
    /\ trace = [s \in Servers |-> <<>>]
    /\ drains = [s \in Servers |-> 0]
    /\ doneCount = [s \in Servers |-> 0]
    /\ lastDraw = -1
    /\ resp = NoResp
    /\ probe = NoProbe
    /\ reqCount = NoMetrics
    /\ histCount = NoMetrics
    /\ served = 0

HandlerNext ==
    \/ \E d \in DrawRange : ServeRequest(d)
    \/ ProbeStep

HandlerSpec == HandlerInit /\ [][HandlerNext]_vars

\* the lifecycle with the metrics listener's endpoints being requested
ProbeNext == Next \/ ProbeStep

ProbeSpec == Init /\ [][ProbeNext]_vars

\* ------------------------------------------------- lifecycle states
\* the state of a listener in the lifecycle machine, read off the position
\* of its supervisor and of its accept loop
LifecycleState(s) ==
    IF loop[s] = "failed" THEN "Crashed"
    ELSE IF pc[s] = "done" THEN "Stopped"
    ELSE IF pc[s] \in {"shutdown", "closing", "log"} THEN "ShuttingDown"
    ELSE IF pc[s] \in {"keepalive", "store", "sleep"} THEN "Draining"
    ELSE IF loop[s] = "serving" THEN "Serving"
    ELSE "Starting"

Rank(st) ==
    CASE st = "Starting"     -> 0
      [] st = "Serving"      -> 1
      [] st = "Draining"     -> 2
      [] st = "ShuttingDown" -> 3
      [] st = "Stopped"      -> 4
      [] st = "Crashed"      -> 5

SupOrder == <<"keepalive", "store", "sleep", "shutdown">>

SettleBegun(s) == pc[s] \in {"sleep", "shutdown", "closing", "log", "done"}

StopObserved(s) == pc[s] \notin {"none", "spawn", "wait"}

SignalReceived == sigBuf > 0 \/ sigPc \in {"close", "done"}

AcceptFailed == \E s \in Servers : loop[s] = "failed"

\* ------------------------------------------------- claims

\* C1: from the moment any listener has begun its settle delay after the
\* stop signal, the Health State is unready (readiness answers 502), up to
\* and including the call of Shutdown and process exit.
C1_UnreadyFromSettle ==
    (\E s \in Servers : SettleBegun(s)) => healthy = 0 /\ ReadinessStatus = StatusBadGateway

\* C2: every listener moves only forward through Starting, Serving,
\* Draining, ShuttingDown, Stopped; after the stop signal it disables
\* keep-alives, writes the Health State unready, completes the settle delay
\* and only then calls Shutdown; Stopped is never left.
C2_ForwardAndOrdered ==
    /\ [](\A s \in Servers :
            /\ trace[s] = SubSeq(SupOrder, 1, Len(trace[s]))
            /\ (inShutdown[s] => Len(trace[s]) = 4 /\ ~keepAlive[s])
            /\ (LifecycleState(s) \in {"ShuttingDown", "Stopped"} => Len(trace[s]) >= 3))
    /\ [][\A s \in Servers :
            /\ Rank(LifecycleState(s)') >= Rank(LifecycleState(s))
            /\ (LifecycleState(s) = "Stopped" => LifecycleState(s)' = "Stopped")]_vars

C2_Witness ==
    \E s \in Servers : LifecycleState(s) = "Stopped" /\ trace[s] = SupOrder

\* C3: the entrypoint returns from wg.Wait (logs and exits 0) only when both
\* listeners are Stopped, whichever finished first, and each listener
\* reports completion exactly once.
C3_ExitOnlyAfterBothStopped ==
    /\ \A s \in Servers : doneCount[s] <= 1 /\ (pc[s] = "done" <=> doneCount[s] = 1)
    /\ (mainPc \in {"log", "done"} \/ procState = "exit0") =>
           \A s \in Servers : LifecycleState(s) = "Stopped" /\ doneCount[s] = 1

C3_Witness ==
    procState = "exit0" /\ shutdownErr["app"] = "deadline" /\ shutdownErr["metrics"] = "nil"

\* C4: once a termination signal has been received, the process eventually
\* exits 0 unless a listener fails fatally, whether Shutdown returned nil
\* or the timeout error; a Shutdown error leaves the process running.
C4_SignalLeadsToExit0 ==
    /\ [](\A s \in Servers : shutdownErr[s] = "deadline" /\ procState # "running"
              => procState = "exit0" \/ AcceptFailed)
    /\ (SignalReceived ~> (procState = "exit0" \/ AcceptFailed))

C4_Witness ==
    procState = "exit0" /\ \A s \in Servers : shutdownErr[s] = "deadline"

\* C5: the Health State starts unready, and readiness answers 502 in every
\* state in which one of the two listeners has not completed startup.
C5_UnreadyUntilBothServing ==
    /\ (mainPc = "parse" => healthy = 0)
    /\ ((\E s \in Servers : loop[s] \in {"none", "start"}) =>
            ReadinessStatus = StatusBadGateway)

\* C6: an accept loop returning anything but the server-closed result aborts
\* the process at once with non-zero status, without waiting for the other
\* listener or the join; a server-closed return aborts nothing, finds the
\* supervisor inside or past Shutdown, and that supervisor reaches Stopped
\* unless the other listener's failure aborts the process first.
C6_FatalOnlyOnUnexpectedReturn ==
    /\ [](\A s \in Servers :
            /\ (loop[s] = "failed" => procState = "fatal")
            /\ (loop[s] = "closed" => inShutdown[s] /\ pc[s] \in {"closing", "log", "done"}))
    /\ [](procState = "fatal" => AcceptFailed \/ mainPc = "parse")
    /\ [][\A s \in Servers :
            loop[s] # "closed" /\ loop'[s] = "closed" =>
                procState' = "running" /\ pc' = pc /\ wg' = wg]_vars
    /\ \A s \in Servers :
          loop[s] = "closed" ~> (LifecycleState(s) = "Stopped" \/ AcceptFailed)

C6_Witness ==
    /\ procState = "fatal" /\ loop["app"] = "failed"
    /\ LifecycleState("metrics") = "Draining" /\ mainPc = "wait" /\ wg = 2

C6_WitnessClosed ==
    procState = "exit0" /\ \A s \in Servers : loop[s] = "closed"

C8_MetricsLeavesHealth ==
    [][pc["metrics"] = "store" /\ pc'["metrics"] # "store" => healthy' = healthy]_vars

\* C8 amended: on entering Draining each listener, the metrics/health
\* listener as well as the application listener, disables its own
\* keep-alives and writes the Health State unready.
C8_EveryListenerClearsHealth ==
    [][\A s \in Servers :
          /\ (pc[s] = "store" /\ pc'[s] # "store" => healthy' = 0)
          /\ (pc[s] = "keepalive" /\ pc'[s] # "keepalive" =>
                 ~keepAlive'[s] /\ \A o \in Servers \ {s} : keepAlive'[o] = keepAlive[o])]_vars

C8_Witness ==
    /\ pc["metrics"] = "sleep" /\ pc["app"] = "wait"
    /\ healthy = 0 /\ mainPc = "wait" /\ keepAlive["app"] /\ ~keepAlive["metrics"]

\* C9: with success rate 100 every response is 200 and with success rate 0
\* every response is 500, whatever the draw.
C9_Extremes ==
    lastDraw # -1 =>
        /\ (successRate = 100 => resp.status = StatusOK)
        /\ (successRate = 0 => resp.status = StatusInternalServerError)

\* C10: for every rate p in 0..100 and draw d in 0..100 the handler answers
\* 500 "Fail\n" exactly when d > p and 200 "Hello World!\n" otherwise; the
\* draws are exactly the integers 0..100.
C10_FailIffDrawExceedsRate ==
    /\ DrawRange = 0..100
    /\ lastDraw = -1 => resp = NoResp
    /\ lastDraw # -1 =>
        /\ lastDraw \in 0..100
        /\ (lastDraw > successRate <=>
              resp = [status |-> 500, body |-> "Fail\n"])
        /\ (lastDraw <= successRate <=>
              resp = [status |-> 200, body |-> "Hello World!\n"])

C10_Witness ==
    successRate = 50 /\ lastDraw = 51 /\ resp.status = 500

\* C11: readiness answers 200 "OK" exactly when the Health State it reads
\* is ready and 502 "Unhealthy" otherwise; liveness answers 200 "OK" whatever
\* the Health State; neither handler writes the Health State.
C11_ProbeAnswers ==
    /\ [](probe.path = "/readiness" =>
            /\ (probe.seen = 1 <=> probe.status = 200 /\ probe.body = "OK")
            /\ (probe.seen # 1 <=> probe.status = 502 /\ probe.body = "Unhealthy"))
    /\ [](probe.path = "/liveness" => probe.status = 200 /\ probe.body = "OK")
    /\ [][probe' # probe =>
            /\ healthy' = healthy
            /\ (probe'.path \in {"/readiness", "/liveness"} => probe'.seen = healthy)]_vars

C11_Witness ==
    /\ probe.path = "/readiness" /\ probe.status = 502 /\ probe.seen = 0
    /\ pc["app"] = "sleep" /\ mainPc = "wait"

InDrain(s) == pc[s] \in {"keepalive", "store", "sleep", "shutdown", "closing", "log"}

\* C12: the listeners drain independently: while the process runs, a
\* draining listener always has its next step available whatever the other
\* listener is doing (in particular while the other's Shutdown is pending or
\* has failed), and a step of one supervisor changes nothing of the other
\* listener; only main's wg.Wait depends on both.
C12_IndependentDrain ==
    /\ [](\A s \in Servers : Running /\ InDrain(s) => ENABLED SupStep(s))
    /\ [][\A s \in Servers : pc'[s] # pc[s] =>
            \A o \in Servers \ {s} :
                /\ pc'[o] = pc[o] /\ inShutdown'[o] = inShutdown[o]
                /\ shutdownErr'[o] = shutdownErr[o] /\ active'[o] = active[o]
                /\ loop'[o] = loop[o] /\ keepAlive'[o] = keepAlive[o]]_vars
    /\ [](Running /\ mainPc = "wait" => (ENABLED MainWait <=> \A s \in Servers : pc[s] = "done"))

C12_Witness ==
    /\ Running /\ shutdownErr["app"] = "deadline" /\ active["app"] > 0
    /\ pc["metrics"] = "sleep"

ParseFails == Atoi(env).err

\* C13: when SUCCESS_RATE is missing or not an integer main does not get
\* past the parse and its only step ends the process with non-zero status:
\* no listener has been started, the stop channel and the signal handler do
\* not exist and the Health State is unready.
C13_ParseFailureIsFatal ==
    /\ [](ParseFails =>
            /\ mainPc = "parse" /\ stopCh = "nil" /\ wg = 0
            /\ ~sigRegistered /\ sigPc = "none" /\ healthy = 0
            /\ \A s \in Servers : pc[s] = "none" /\ loop[s] = "none"
            /\ procState \in {"running", "fatal", "killed"})
    /\ [](ParseFails /\ Running => ENABLED MainParse)
    /\ [][ParseFails /\ vars' # vars => procState' \in {"fatal", "killed"}]_vars

C13_Witness ==
    procState = "fatal" /\ env = <<>> /\ sigSent = 0

\* C14: every completed request to "/" adds exactly one sample to the
\* request counter and one to the duration histogram, both under the status
\* code written to that response; requests to the metrics listener's
\* endpoints change neither.
C14_OneSamplePerRequest ==
    /\ [](/\ reqCount = histCount
          /\ reqCount[StatusOK] + reqCount[StatusInternalServerError] = served)
    /\ [][served' # served =>
            /\ served' = served + 1
            /\ resp'.status \in Codes
            /\ reqCount' = [reqCount EXCEPT ![resp'.status] = reqCount[resp'.status] + 1]
            /\ histCount' = [histCount EXCEPT ![resp'.status] = histCount[resp'.status] + 1]]_vars
    /\ [][probe' # probe =>
            reqCount' = reqCount /\ histCount' = histCount /\ served' = served]_vars

C14_Witness ==
    /\ reqCount[200] = 1 /\ histCount[500] = 1 /\ served = 2
    /\ probe.path = "/metrics" /\ resp.status = 500

\* C15: the supervisor goes from launching the accept loop straight to the
\* wait on the stop signal; a closed stop channel releases it whether or not
\* the accept loop has bound; a listener stopped that early keeps stepping
\* through its drain sequence to Stopped, and an accept loop starting after
\* Shutdown returns server-closed, which aborts nothing.
C15_StopBeforeServing ==
    /\ [](\A s \in Servers :
            Running /\ pc[s] = "wait" /\ stopCh = "closed" => ENABLED SupRecv(s))
    /\ [][\A s \in Servers :
            /\ (pc[s] = "spawn" /\ pc'[s] # "spawn" => pc'[s] = "wait" /\ loop'[s] = "start")
            /\ (loop[s] = "start" /\ inShutdown[s] /\ loop'[s] # loop[s] =>
                   loop'[s] = "closed" /\ procState' = "running")]_vars
    /\ [](\A s \in Servers :
            Running /\ InDrain(s) /\ loop[s] = "start" => ENABLED SupStep(s))

C15_Witness ==
    /\ Running /\ pc["app"] = "done" /\ loop["app"] = "start"
    /\ shutdownErr["app"] = "nil"

\* C16: the stop channel is closed at most once however many termination
\* signals arrive: only the first is taken from the signal channel, and a
\* later signal changes no listener's state, nor the Health State, the stop
\* channel or the process state.
C16_ClosedAtMostOnce ==
    /\ [](closeCount <= 1 /\ (closeCount = 1 <=> stopCh = "closed"))
    /\ [][(sigPc # "none" /\ sigPc # "recv") =>
            (sigBuf' >= sigBuf) /\ (sigPc' # "recv")]_vars
    /\ [][sigSent' # sigSent /\ sigRegistered =>
            UNCHANGED <<pc, loop, healthy, stopCh, keepAlive, inShutdown, active,
                        shutdownErr, trace, procState, wg, closeCount, sigPc>>]_vars

C16_Witness ==
    /\ sigSent = 3 /\ sigBuf = 2 /\ closeCount = 1
    /\ pc["app"] = "sleep" /\ pc["metrics"] = "closing"

====
